---- MODULE Spec2Model ----
(***************************************************************************)
(* GenesisBASICCompiler (src/genesisbasic_compiler.py) as a state machine. *)
(*                                                                         *)
(* Python strings that the code inspects (operand lexemes, variable names, *)
(* type keywords, resolved operand texts) are sequences of one-character   *)
(* strings, so startswith, isdigit, lower, int() and f-string formatting   *)
(* are computed character by character.  Fixed template text is a TLA+     *)
(* string.  A token is the record of the groups its statement pattern      *)
(* captures.  An assembly line is a record of its template and the texts   *)
(* substituted into it.                                                    *)
(***************************************************************************)
EXTENDS Integers, Sequences, FiniteSets, TLC

VARIABLES
    pending,         \* sources the caller still has to pass to compile()
    code,            \* argument of the running / last compile() call
    tokens,          \* local `tokens` of compile()
    i,               \* local loop index `i` of compile(), 1-based here
    pc,              \* "idle" | "loop" | "returned" | "raised"
    variables,       \* self.variables, insertion-ordered dict
    labels,          \* self.labels
    asm,             \* self.asm
    current_offset,  \* self.current_offset
    errors,          \* self.errors
    if_count,        \* self.if_count
    line_num,        \* self.line_num
    result,          \* <<>> or <<return value of the last compile()>>
    file,            \* <<>> (absent) or <<content of output_file>>
    log              \* log[j] = what the loop iteration for tokens[j] appended
                     \* to self.asm and to self.errors

vars == <<pending, code, tokens, i, pc, variables, labels, asm,
          current_offset, errors, if_count, line_num, result, file, log>>

----------------------------------------------------------------------------
(* Characters and strings *)

DigitSeq == <<"0", "1", "2", "3", "4", "5", "6", "7", "8", "9">>

Digits == {DigitSeq[k] : k \in 1..10}

DigitVal(c) == (CHOOSE k \in 1..10 : DigitSeq[k] = c) - 1

\* str.isdigit()
isdigit(s) == Len(s) > 0 /\ \A k \in 1..Len(s) : s[k] \in Digits

\* str.startswith(c) for a one-character prefix
startswith(s, c) == Len(s) > 0 /\ s[1] = c

UpperSeq == <<"A", "B", "C", "D", "E", "F", "G", "H", "I", "J", "K", "L", "M",
              "N", "O", "P", "Q", "R", "S", "T", "U", "V", "W", "X", "Y", "Z">>

LowerSeq == <<"a", "b", "c", "d", "e", "f", "g", "h", "i", "j", "k", "l", "m",
              "n", "o", "p", "q", "r", "s", "t", "u", "v", "w", "x", "y", "z">>

LowerChar(c) ==
    IF \E k \in 1..26 : UpperSeq[k] = c
    THEN LowerSeq[CHOOSE k \in 1..26 : UpperSeq[k] = c]
    ELSE c

\* str.lower()
lower(s) == [k \in 1..Len(s) |-> LowerChar(s[k])]

RECURSIVE ParseDigits(_, _)
ParseDigits(s, acc) ==
    IF s = <<>> THEN acc
    ELSE ParseDigits(Tail(s), acc * 10 + DigitVal(Head(s)))

\* int(s): ValueError unless s is a run of decimal digits (the lexemes drawn
\* below hold letters, digits and '$' only: no sign, blank or underscore)
int(s) ==
    IF isdigit(s) THEN [ok |-> TRUE, val |-> ParseDigits(s, 0)]
    ELSE [ok |-> FALSE, val |-> 0]

HexSeq == <<"0", "1", "2", "3", "4", "5", "6", "7", "8", "9",
            "A", "B", "C", "D", "E", "F">>

IsHexChar(c) == \E k \in 1..16 : HexSeq[k] = c \/ LowerChar(HexSeq[k]) = c

HexVal(c) == (CHOOSE k \in 1..16 : HexSeq[k] = c \/ LowerChar(HexSeq[k]) = c) - 1

RECURSIVE ParseHex(_, _)
ParseHex(s, acc) ==
    IF s = <<>> THEN acc
    ELSE ParseHex(Tail(s), acc * 16 + HexVal(Head(s)))

\* int(s, 16): ValueError unless s is a run of hex digits ('$' is not one)
int16(s) ==
    IF Len(s) > 0 /\ \A k \in 1..Len(s) : IsHexChar(s[k])
    THEN [ok |-> TRUE, val |-> ParseHex(s, 0)]
    ELSE [ok |-> FALSE, val |-> 0]

\* int(val, 16) if val.startswith('$') else int(val)
int_lit(s) == IF startswith(s, "$") THEN int16(s) ELSE int(s)

RECURSIVE str(_)
\* f"{n}" for an integer
str(n) ==
    IF n < 0 THEN <<"-">> \o str(0 - n)
    ELSE IF n < 10 THEN <<DigitSeq[n + 1]>>
    ELSE str(n \div 10) \o <<DigitSeq[(n % 10) + 1]>>

RECURSIVE Pow2(_)
Pow2(k) == IF k = 0 THEN 1 ELSE 2 * Pow2(k - 1)

\* a << k on Python's unbounded integers
Shl(a, k) == a * Pow2(k)

RECURSIVE BitOr(_, _)
\* a | b on non-negative integers
BitOr(a, b) ==
    IF a = 0 THEN b
    ELSE IF b = 0 THEN a
    ELSE 2 * BitOr(a \div 2, b \div 2) + (IF a % 2 = 1 \/ b % 2 = 1 THEN 1 ELSE 0)

RECURSIVE BitAnd(_, _)
\* a & b on non-negative integers
BitAnd(a, b) ==
    IF a = 0 \/ b = 0 THEN 0
    ELSE 2 * BitAnd(a \div 2, b \div 2) + (IF a % 2 = 1 /\ b % 2 = 1 THEN 1 ELSE 0)

RECURSIVE DigitsLE(_)
\* the decimal digits of n, least significant first
DigitsLE(n) == IF n < 10 THEN <<n>> ELSE <<n % 10>> \o DigitsLE(n \div 10)

RECURSIVE MulAdd(_, _, _)
\* the digits of ds * m + carry, on digit sequences of any length
MulAdd(ds, m, carry) ==
    IF ds = <<>> THEN (IF carry = 0 THEN <<>> ELSE DigitsLE(carry))
    ELSE LET v == Head(ds) * m + carry
         IN  <<v % 10>> \o MulAdd(Tail(ds), m, v \div 10)

\* f"{a << 16 | b}" for 0 <= b < 2^16: the value passes 2^31, so it is
\* computed on its decimal digits ((a << 16) | b = a * 65536 + b there)
str_shl16_or(a, b) ==
    LET ds == MulAdd(DigitsLE(a), 65536, b)
    IN  [k \in 1..Len(ds) |-> DigitSeq[ds[Len(ds) + 1 - k] + 1]]

\* '\n'.join(lines)
join(lines) == [sep |-> "\n", parts |-> lines]

----------------------------------------------------------------------------
(* Assembly lines *)

Text(s) == [k |-> "text", s |-> s]

\* f"    {op}.{size} {src}, {dst}  ; {note}"
Ins(op, size, src, dst, note) ==
    [k |-> "ins", op |-> op, size |-> size, src |-> src, dst |-> dst, note |-> note]

\* f"    {cc} .if_{n}_skip"
Branch(cc, n) == [k |-> "br", cc |-> cc, label |-> n]

\* f".if_{n}_skip:"
SkipDef(n) == [k |-> "skip", label |-> n]

\* "$C00004" and "$C00000"
VDP_CTRL == <<"$", "C", "0", "0", "0", "0", "4">>

VDP_DATA == <<"$", "C", "0", "0", "0", "0", "0">>

emit_header ==
    << Text("; GenesisBASIC Compiled ROM"),
       Text("    org $000000"),
       Text("    dc.l $00FFFE00      ; Stack pointer"),
       Text("    dc.l rom_header     ; ROM start"),
       Text("    dc.l $00000000      ; Unused"),
       Text("    dc.l Start          ; Reset vector"),
       Text(""),
       Text("rom_header:"),
       Text("    dc.b 'SEGA GENESIS    '  ; Console name"),
       Text("    dc.b '(C) 2025       '   ; Copyright"),
       Text("    dc.b 'GenesisBASIC Demo   '  ; Domestic name"),
       Text("    dc.b 'GenesisBASIC Demo   '  ; Overseas name"),
       Text("    dc.b 'GM 00000000-00'    ; Serial"),
       Text("    dc.w $0000               ; Checksum (post-calculate)"),
       Text("    dc.b 'J               '   ; I/O support"),
       Text("    dc.l rom_start"),
       Text("    dc.l rom_end"),
       Text("    dc.l $00FF0000           ; RAM start"),
       Text("    dc.l $00FFFFFF           ; RAM end"),
       Text("    dc.b $40, $00, $00       ; Subtitles"),
       Text("    dc.b '    '              ; Region"),
       Text("    dc.b $00                 ; ROM type"),
       Text("    dc.w $0000               ; Product number"),
       Text("    dc.b $40                 ; Data area size"),
       Text("    dc.b $00                 ; Reserved"),
       Text(""),
       Text("rom_start:"),
       Text("Start:") >>

----------------------------------------------------------------------------
(* The compiler object.  A value of Self is the record of the instance     *)
(* attributes the generation loop reads and writes.                        *)

RAM_BASE == 16711680  \* 0xFF0000

RECURSIVE HexDigits(_)
HexDigits(n) ==
    IF n < 16 THEN <<HexSeq[n + 1]>>
    ELSE HexDigits(n \div 16) \o <<HexSeq[(n % 16) + 1]>>

RECURSIVE ZeroPad(_, _)
ZeroPad(s, w) == IF Len(s) >= w THEN s ELSE ZeroPad(<<"0">> \o s, w)

\* f'${offset:06X}'.upper()
fmt_addr(offset) == <<"$">> \o ZeroPad(HexDigits(offset), 6)

WORD == <<"W", "O", "R", "D">>

LONG == <<"L", "O", "N", "G">>

VarNames(vs) == {vs[k].name : k \in 1..Len(vs)}

VarInfo(vs, name) == vs[CHOOSE k \in 1..Len(vs) : vs[k].name = name]

add_error(st, msg, arg) ==
    [st EXCEPT !.errors = Append(@, [line |-> st.line_num, msg |-> msg, arg |-> arg])]

Emit(st, line) == [st EXCEPT !.asm = Append(@, line)]

\* declare_var without the early return on a redeclaration
declare_var_no_return(st, name, var_type, init) ==
    LET st0 == IF name \in VarNames(st.variables)
               THEN add_error(st, "Variable redeclared", name) ELSE st
        entry == [name |-> name, type |-> var_type, addr |-> fmt_addr(st0.current_offset)]
        st1 == [st0 EXCEPT
                  !.variables = IF name \in VarNames(@)
                                THEN [k \in 1..Len(@) |->
                                         IF @[k].name = name THEN entry ELSE @[k]]
                                ELSE Append(@, entry),
                  !.current_offset = @ + (IF var_type = WORD THEN 2 ELSE 4)]
    IN  IF init # <<>>
        THEN Emit(st1, Ins("move", IF var_type = WORD THEN "w" ELSE "l",
                           IF ~startswith(init[1], "$") THEN <<"#">> \o init[1] ELSE init[1],
                           name, ""))
        ELSE st1

declare_var(st, name, var_type, init) ==
    IF name \in VarNames(st.variables)
    THEN add_error(st, "Variable redeclared", name)
    ELSE LET offset == st.current_offset
             st1 == [st EXCEPT
                       !.variables = Append(@, [name |-> name, type |-> var_type,
                                                addr |-> fmt_addr(offset)]),
                       !.current_offset = @ + (IF var_type = WORD THEN 2 ELSE 4)]
         IN  IF init # <<>>
             THEN LET size == IF var_type = WORD THEN "w" ELSE "l"
                      init_val == IF ~startswith(init[1], "$")
                                  THEN <<"#">> \o init[1] ELSE init[1]
                  IN  Emit(st1, Ins("move", size, init_val, name, ""))
             ELSE st1

Registers ==
    { <<"D", "0">>, <<"D", "1">>, <<"D", "2">>, <<"D", "3">>,
      <<"D", "4">>, <<"D", "5">>, <<"D", "6">>, <<"D", "7">>,
      <<"A", "0">>, <<"A", "1">>, <<"A", "2">>, <<"A", "3">>,
      <<"A", "4">>, <<"A", "5">>, <<"A", "6">> }

\* returns the operand text together with the object after add_error
resolve_operand(st, op) ==
    IF op \in VarNames(st.variables)
    THEN [st |-> st, text |-> <<"(">> \o op \o <<")">>]
    ELSE IF op \in Registers
    THEN [st |-> st, text |-> op]
    ELSE IF startswith(op, "$") \/ isdigit(op)
    THEN [st |-> st, text |-> <<"#">> \o op]
    ELSE [st |-> add_error(st, "Invalid operand", op), text |-> op]

Ok(st) == [st |-> st, raised |-> FALSE]

Raise(st) == [st |-> st, raised |-> TRUE]

gen_DECLARE(st, tok) == Ok(declare_var(st, tok.name, tok.vtype, tok.init))

gen_VDP_SET(st, tok) ==
    LET val_int == int_lit(tok.val)
        vdp_addr == BitOr(BitOr(32768, Shl(int(tok.reg).val, 8)), BitAnd(val_int.val, 255))
    IN  IF ~val_int.ok THEN Raise(st)
        ELSE Ok(Emit(st, Ins("move", "w", <<"#">> \o str(vdp_addr), VDP_CTRL, "")))

gen_TILE(st, tok) ==
    LET addr_int == int_lit(tok.addr)
    IN  IF ~addr_int.ok THEN Raise(st)
        ELSE LET st1 == Emit(st, Ins("move", "l",
                                     <<"#">> \o str_shl16_or(addr_int.val, 2),
                                     VDP_CTRL, "Set VRAM write addr"))
             IN  Ok(Emit(st1, [k |-> "dma", size |-> tok.size]))

gen_SPRITE(st, tok) ==
    LET sid == int(tok.sid).val
        sprite_addr == BitOr(57344, sid * 8)
        st1 == Emit(st, Ins("move", "l", <<"#">> \o str_shl16_or(sprite_addr, 3),
                            VDP_CTRL, "Sprite table"))
        r1 == resolve_operand(st1, tok.x)
        st2 == Emit(r1.st, Ins("move", "w", r1.text, VDP_DATA, "Y pos"))
        st3 == Emit(st2, Ins("move", "w",
                             <<"#">> \o str(BitOr(BitOr(Shl(sid, 8), Shl(int(tok.pal).val, 5)),
                                                  int(tok.tile).val)),
                             VDP_DATA, "Link/Pal/Tile"))
        r2 == resolve_operand(st3, tok.x)
        xv == int(r2.text)
    IN  IF ~xv.ok THEN Raise(r2.st)
        ELSE Ok(Emit(r2.st, Ins("move", "w",
                                str(BitOr(BitOr(Shl(int(tok.hflip).val, 11),
                                                Shl(int(tok.vflip).val, 12)), xv.val)),
                                VDP_DATA, "X pos")))

MaxColors == 16

RECURSIVE palette_colors(_, _)
\* for color in colors: ...
palette_colors(st, colors) ==
    IF colors = <<>> THEN Ok(st)
    ELSE LET color_val == int_lit(Head(colors))
         IN  IF ~color_val.ok THEN Raise(st)
             ELSE palette_colors(
                      Emit(st, Ins("move", "w", <<"#">> \o str(color_val.val), VDP_DATA, "")),
                      Tail(colors))

gen_PALETTE(st, tok) ==
    LET cram_addr == BitOr(49152, int(tok.id).val * 32)
        st1 == Emit(st, Ins("move", "l", <<"#">> \o str_shl16_or(cram_addr, 9),
                            VDP_CTRL, "CRAM write"))
        n == IF Len(tok.colors) < MaxColors THEN Len(tok.colors) ELSE MaxColors
    IN  palette_colors(st1, SubSeq(tok.colors, 1, n))

gen_READCONTROLLER(st, tok) ==
    LET port == <<"$", "A", "1", "0", "0">> \o (IF tok.port = <<"0">> THEN <<"3">> ELSE <<"5">>)
    IN  Ok([st EXCEPT !.asm = @ \o
              << Ins("move", "b", <<"#", "$", "4", "0">>, port, "Latch"),
                 Text("    nop"),
                 Text("    nop"),
                 Ins("move", "b", port, <<"D", "0">>, ""),
                 Text("    not.b D0  ; Invert bits") >>])

gen_SOUND(st, tok) ==
    LET ch == int(tok.ch).val
    IN  Ok([st EXCEPT !.asm = @ \o
              << Ins("move", "b", <<"#">> \o str(ch), <<"$", "4", "0", "0", "0">>, "YM2612 port A"),
                 Ins("move", "b", <<"#">> \o tok.note, <<"$", "4", "0", "0", "1">>, ""),
                 Ins("move", "b", <<"#">> \o str(ch + 16), <<"$", "4", "0", "0", "0">>, "Volume"),
                 Ins("move", "b", <<"#">> \o str(127 - int(tok.vol).val),
                     <<"$", "4", "0", "0", "1">>, "Inverted volume") >>])

gen_MOVE(st, tok) ==
    LET rs == resolve_operand(st, tok.src)
        rd == resolve_operand(rs.st, tok.dst)
        vs == rd.st.variables
        size == IF (tok.dst \in VarNames(vs) /\ VarInfo(vs, tok.dst).type = WORD)
                   \/ startswith(tok.dst, "D")
                THEN "w" ELSE "l"
    IN  Ok(Emit(rd.st, Ins("move", size, rs.text, rd.text, "")))

gen_ADD(st, tok) ==
    LET rs == resolve_operand(st, tok.src)
    IN  Ok(Emit(rs.st, Ins("add", "w", rs.text, <<"(">> \o tok.dst \o <<")">>, "")))

gen_SUB(st, tok) ==
    LET rs == resolve_operand(st, tok.src)
    IN  Ok(Emit(rs.st, Ins("sub", "w", rs.text, <<"(">> \o tok.dst \o <<")">>, "")))

gen_IF(st, tok) ==
    LET st1 == [st EXCEPT !.if_count = @ + 1]
        label == st1.if_count
        mem == <<"(">> \o tok.var \o <<")">>
        rv == resolve_operand(st1, tok.val)
        cmp == Emit(rv.st, Ins("cmp", "w", rv.text, mem, ""))
    IN  IF tok.op = <<"A", "N", "D">>
        THEN Ok(Emit(Emit(st1, Ins("btst", "", <<"#">> \o tok.val, mem, "")),
                     Branch("beq", label)))
        ELSE IF tok.op = <<"=">> THEN Ok(Emit(cmp, Branch("bne", label)))
        ELSE IF tok.op = <<">">> THEN Ok(Emit(cmp, Branch("ble", label)))
        ELSE IF tok.op = <<"<">> THEN Ok(Emit(cmp, Branch("bge", label)))
        ELSE Ok(st1)

gen_ENDIF(st, tok) ==
    Ok([Emit(st, SkipDef(st.if_count)) EXCEPT !.if_count = @ - 1])

gen_GOTO(st, tok) ==
    Ok([Emit(st, [k |-> "bra", name |-> tok.label]) EXCEPT !.labels = @ \cup {tok.label}])

gen_POKE(st, tok) ==
    LET ra == resolve_operand(st, tok.addr)
        rv == resolve_operand(ra.st, tok.val)
    IN  Ok(Emit(rv.st, Ins("move", "w", rv.text, ra.text, "")))

gen_WAITVBLANK(st, tok) ==
    Ok([st EXCEPT !.asm = @ \o
          << Text(".wait_vblank:"),
             Text("    btst #3, $C00004  ; V-blank flag"),
             Text("    beq .wait_vblank") >>])

gen_LABEL(st, tok) ==
    LET label == SubSeq(tok.value, 1, Len(tok.value) - 1)
    IN  Ok([Emit(st, [k |-> "label", name |-> label]) EXCEPT !.labels = @ \cup {label}])

gen_HALT(st, tok) == Ok(Emit(st, Text("Halt: bra Halt")))

gen_unknown(st, tok) == Ok(add_error(st, "Unknown token", tok.value))

\* one iteration of the while loop of compile(), without the i += 1
GenStep(st, tok) ==
    CASE tok.type = "DECLARE" -> gen_DECLARE(st, tok)
      [] tok.type = "VDP_SET" -> gen_VDP_SET(st, tok)
      [] tok.type = "TILE" -> gen_TILE(st, tok)
      [] tok.type = "SPRITE" -> gen_SPRITE(st, tok)
      [] tok.type = "PALETTE" -> gen_PALETTE(st, tok)
      [] tok.type = "READCONTROLLER" -> gen_READCONTROLLER(st, tok)
      [] tok.type = "SOUND" -> gen_SOUND(st, tok)
      [] tok.type = "MOVE" -> gen_MOVE(st, tok)
      [] tok.type = "ADD" -> gen_ADD(st, tok)
      [] tok.type = "SUB" -> gen_SUB(st, tok)
      [] tok.type = "IF" -> gen_IF(st, tok)
      [] tok.type = "ENDIF" -> gen_ENDIF(st, tok)
      [] tok.type = "GOTO" -> gen_GOTO(st, tok)
      [] tok.type = "POKE" -> gen_POKE(st, tok)
      [] tok.type = "WAITVBLANK" -> gen_WAITVBLANK(st, tok)
      [] tok.type = "LABEL" -> gen_LABEL(st, tok)
      [] tok.type = "HALT" -> gen_HALT(st, tok)
      [] OTHER -> gen_unknown(st, tok)

\* "Allocate variables": the lines appended after the loop
allocate_variables(st) ==
    [st EXCEPT !.asm = @ \o << Text(""), Text("; Variable allocations") >>
                         \o [k \in 1..Len(st.variables) |->
                                [k |-> "ds", name |-> st.variables[k].name,
                                 type |-> lower(st.variables[k].type)]]
                         \o << Text("    even"), Text("rom_end:"), Text("    end") >>]

----------------------------------------------------------------------------
(* compile() *)

Self == [variables |-> variables, labels |-> labels, asm |-> asm,
         current_offset |-> current_offset, errors |-> errors,
         if_count |-> if_count, line_num |-> line_num]

\* the attributes __init__ sets
NewCompiler == [variables |-> <<>>, labels |-> {}, asm |-> <<>>,
                current_offset |-> RAM_BASE, errors |-> <<>>,
                if_count |-> 0, line_num |-> 1]

\* value.count('\n')
count_nl(value) == Cardinality({k \in 1..Len(value) : value[k] = "\n"})

\* a match of a statement pattern spans no newline in the sources drawn here;
\* only WHITESPACE matches carry them
Newlines(match) == IF match.type = "WHITESPACE" THEN count_nl(match.value) ELSE 0

RECURSIVE SumNewlines(_)
SumNewlines(matches) ==
    IF matches = <<>> THEN 0
    ELSE Newlines(Head(matches)) + SumNewlines(Tail(matches))

IsToken(match) == match.type # "WHITESPACE" /\ match.type # "COMMENT"

\* tokenize(code): code is the sequence of matches finditer yields
tokenize(st, matches) ==
    [st |-> [st EXCEPT !.line_num = @ + SumNewlines(matches)],
     tokens |-> SelectSeq(matches, IsToken)]

\* the statements of compile() before the loop
compile_begin(st, matches) ==
    LET st1 == [st EXCEPT !.errors = <<>>, !.variables = <<>>, !.labels = {},
                          !.current_offset = RAM_BASE, !.line_num = 1]
        tk == tokenize(st1, matches)
    IN  [st |-> [tk.st EXCEPT !.asm = emit_header], tokens |-> tk.tokens]

\* compile_end without the early return on diagnostics
compile_end_no_return(st, f) ==
    LET st1 == allocate_variables(st)
        asm_code == join(st1.asm)
    IN  [st |-> st1, result |-> [ok |-> TRUE, text |-> <<asm_code>>], file |-> <<asm_code>>]

\* the statements of compile() after the loop; f is the output file before
compile_end(st, f) ==
    LET st1 == allocate_variables(st)
        asm_code == join(st1.asm)
    IN  IF st1.errors # <<>>
        THEN [st |-> st1, result |-> [ok |-> FALSE, text |-> <<>>], file |-> f]
        ELSE [st |-> st1, result |-> [ok |-> TRUE, text |-> <<asm_code>>],
              file |-> <<asm_code>>]

RECURSIVE run_loop(_, _)
\* the while loop of compile() run to its end or to the first exception
run_loop(st, toks) ==
    IF toks = <<>> THEN Ok(st)
    ELSE LET r == GenStep(st, Head(toks))
         IN  IF r.raised THEN r ELSE run_loop(r.st, Tail(toks))

\* GenesisBASICCompiler().compile(code): <<return value>>, or <<>> if it raises
compile_fresh(matches) ==
    LET b == compile_begin(NewCompiler, matches)
        r == run_loop(b.st, b.tokens)
    IN  IF r.raised THEN <<>> ELSE <<compile_end(r.st, <<>>).result>>

SetSelf(st) ==
    /\ variables' = st.variables
    /\ labels' = st.labels
    /\ asm' = st.asm
    /\ current_offset' = st.current_offset
    /\ errors' = st.errors
    /\ if_count' = st.if_count
    /\ line_num' = st.line_num

InitCompiler ==
    /\ code = <<>>
    /\ tokens = <<>>
    /\ i = 1
    /\ pc = "idle"
    /\ variables = NewCompiler.variables
    /\ labels = NewCompiler.labels
    /\ asm = NewCompiler.asm
    /\ current_offset = NewCompiler.current_offset
    /\ errors = NewCompiler.errors
    /\ if_count = NewCompiler.if_count
    /\ line_num = NewCompiler.line_num
    /\ result = <<>>
    /\ file = <<>>
    /\ log = <<>>

\* the caller invokes compile(code) on the instance
CompileStart ==
    /\ pc \in {"idle", "returned", "raised"}
    /\ pending # <<>>
    /\ LET b == compile_begin(Self, Head(pending))
       IN  /\ SetSelf(b.st)
           /\ tokens' = b.tokens
    /\ code' = Head(pending)
    /\ pending' = Tail(pending)
    /\ i' = 1
    /\ pc' = "loop"
    /\ result' = <<>>
    /\ log' = <<>>
    /\ UNCHANGED file

\* one iteration of the while loop
Generate ==
    /\ pc = "loop"
    /\ i <= Len(tokens)
    /\ LET r == GenStep(Self, tokens[i])
       IN  /\ SetSelf(r.st)
           /\ IF r.raised
              THEN /\ pc' = "raised"
                   /\ UNCHANGED <<i, log>>
              ELSE /\ pc' = "loop"
                   /\ i' = i + 1
                   /\ log' = Append(log,
                          [asm |-> SubSeq(r.st.asm, Len(asm) + 1, Len(r.st.asm)),
                           errors |-> SubSeq(r.st.errors, Len(errors) + 1,
                                             Len(r.st.errors))])
    /\ UNCHANGED <<pending, code, tokens, result, file>>

\* loop exit, epilogue and return
CompileEnd ==
    /\ pc = "loop"
    /\ i > Len(tokens)
    /\ LET e == compile_end(Self, file)
       IN  /\ SetSelf(e.st)
           /\ result' = <<e.result>>
           /\ file' = e.file
    /\ pc' = "returned"
    /\ UNCHANGED <<pending, code, tokens, i, log>>

Next == CompileStart \/ Generate \/ CompileEnd

----------------------------------------------------------------------------
(* Sources *)

SeqsUpTo(S, n) == UNION {[1..k -> S] : k \in 0..n}

NL == [type |-> "WHITESPACE", value |-> <<"\n">>]

RECURSIVE Lines(_)
\* the source text with one statement per line
Lines(stmts) ==
    IF Len(stmts) <= 1 THEN stmts
    ELSE <<Head(stmts), NL>> \o Lines(Tail(stmts))

n_x == <<"x">>

n_y == <<"y">>

n_Dz == <<"D", "z">>

word == <<"w", "o", "r", "d">>

Decl(name, vtype, init) == [type |-> "DECLARE", name |-> name, vtype |-> vtype, init |-> init]

MaxDecls == 3

DeclStmts == {Decl(n, t, <<>>) : n \in {n_x, n_y, n_Dz}, t \in {WORD, LONG, word}}
             \cup {Decl(n_x, t, << <<"5">> >>) : t \in {WORD, LONG, word}}

InitDecl ==
    /\ InitCompiler
    /\ pending \in {<<Lines(p)>> : p \in SeqsUpTo(DeclStmts, MaxDecls)}

SpecDecl == InitDecl /\ [][Next]_vars

\* the address a variable entry records, read back from its text
AddrOf(v) == int16(Tail(v.addr)).val

\* the size of a storage class as the recognizer accepts it (any letter case)
ClassSize(vtype) == IF lower(vtype) = lower(WORD) THEN 2 ELSE 4

DistinctNames(toks) ==
    \A a, b \in 1..Len(toks) : toks[a].name = toks[b].name => a = b

\* C1: in a compile of declarations with distinct names the first variable is
\* at 0xFF0000, each later one at the previous address plus the previous size
\* (2 for Word, 4 for Long), and no two variables share an address.
C1_SequentialAddresses ==
    (pc \in {"loop", "returned"} /\ DistinctNames(tokens)) =>
        /\ \A k \in 1..Len(variables) :
              AddrOf(variables[k]) =
                  IF k = 1 THEN 16711680
                  ELSE AddrOf(variables[k - 1]) + ClassSize(variables[k - 1].type)
        /\ \A a, b \in 1..Len(variables) :
              variables[a].addr = variables[b].addr => a = b

\* C2: declaring a name already in the symbol table leaves the variables (their
\* addresses and storage classes), the allocation cursor and the instruction
\* list unchanged and appends exactly one 'redeclared' diagnostic.
C2_RedeclareNoop ==
    [][(/\ pc = "loop"
        /\ i <= Len(tokens)
        /\ tokens[i].type = "DECLARE"
        /\ tokens[i].name \in VarNames(variables))
       => /\ variables' = variables
          /\ current_offset' = current_offset
          /\ asm' = asm
          /\ errors' = Append(errors, [line |-> line_num, msg |-> "Variable redeclared",
                                       arg |-> tokens[i].name])]_vars

\* a redeclaration with an initialiser and another storage class has been generated
C2_Witness ==
    /\ pc = "loop"
    /\ \E j \in 1..Len(log), m \in 1..Len(log) :
          /\ m < j
          /\ tokens[m].name = tokens[j].name
          /\ tokens[m].vtype # tokens[j].vtype
          /\ tokens[j].init # <<>>
          /\ Len(log[j].errors) = 1

----------------------------------------------------------------------------
(* IF / ENDIF *)

If(var, op, val) == [type |-> "IF", var |-> var, op |-> op, val |-> val]

EndIf == [type |-> "ENDIF"]

MaxIfLen == 6

IfStmts == {If(n_x, op, <<"1">>) : op \in {<<"=">>, <<"A", "N", "D">>, <<"a", "n", "d">>}}
           \cup {EndIf}

InitIf ==
    /\ InitCompiler
    /\ pending \in {<<Lines(p)>> : p \in SeqsUpTo(IfStmts, MaxIfLen)}

SpecIf == InitIf /\ [][Next]_vars

\* the same sources with every operator spelled as the dispatch compares it
IfStmtsUpper == {If(n_x, op, <<"1">>) : op \in {<<"=">>, <<"A", "N", "D">>, <<">">>}}
                \cup {EndIf}

InitIfUpper ==
    /\ InitCompiler
    /\ pending \in {<<Lines(p)>> : p \in SeqsUpTo(IfStmtsUpper, MaxIfLen)}

SpecIfUpper == InitIfUpper /\ [][Next]_vars

RECURSIVE Depth(_)
\* number of IFs still open after toks
Depth(toks) ==
    IF toks = <<>> THEN 0
    ELSE Depth(SubSeq(toks, 1, Len(toks) - 1))
         + (IF toks[Len(toks)].type = "IF" THEN 1
            ELSE IF toks[Len(toks)].type = "ENDIF" THEN -1 ELSE 0)

\* IF and ENDIF are balanced and strictly nested
Balanced(toks) ==
    /\ Depth(toks) = 0
    /\ \A k \in 1..Len(toks) : Depth(SubSeq(toks, 1, k)) >= 0

\* the IF that the ENDIF at position j closes
MatchingIf(toks, j) ==
    CHOOSE m \in 1..(j - 1) :
        /\ toks[m].type = "IF"
        /\ Depth(SubSeq(toks, 1, m - 1)) = Depth(SubSeq(toks, 1, j))
        /\ \A n \in (m + 1)..(j - 1) :
               Depth(SubSeq(toks, 1, n)) > Depth(SubSeq(toks, 1, j))

BranchTargets(lines) == {lines[k].label : k \in {n \in 1..Len(lines) : lines[n].k = "br"}}

SkipDefs(lines) == {lines[k].label : k \in {n \in 1..Len(lines) : lines[n].k = "skip"}}

\* C3: in a balanced, strictly nested source compiled on a fresh compiler, the
\* skip label each ENDIF defines is the label the branch instruction of its
\* matching IF targets.
C3_SkipLabelMatchesBranch ==
    (pc = "returned" /\ Balanced(tokens)) =>
        \A j \in 1..Len(tokens) :
            tokens[j].type = "ENDIF" =>
                /\ SkipDefs(log[j].asm) # {}
                /\ BranchTargets(log[MatchingIf(tokens, j)].asm) = SkipDefs(log[j].asm)

Count(lines, kind, n) ==
    Cardinality({k \in 1..Len(lines) : lines[k].k = kind /\ lines[k].label = n})

\* C10: in the output for a balanced, strictly nested source every generated
\* skip label is the target of exactly one branch and is defined exactly once.
C10_LabelsExactlyOnce ==
    (pc = "returned" /\ Balanced(tokens)) =>
        \A n \in BranchTargets(asm) \cup SkipDefs(asm) :
            /\ Count(asm, "br", n) = 1
            /\ Count(asm, "skip", n) = 1

----------------------------------------------------------------------------
(* Several compile() calls on one instance *)

Halt == [type |-> "HALT"]

\* a span no statement pattern matches: the IDENTIFIER catch-all
Foo == [type |-> "IDENTIFIER", value |-> <<"F", "O", "O">>]

MaxLen == 2

MaxCalls == 2

CallStmts == {If(n_x, <<"=">>, <<"1">>), EndIf, Foo}

CallSources == {Lines(p) : p \in SeqsUpTo(CallStmts, MaxLen)}

InitCalls ==
    /\ InitCompiler
    /\ pending \in UNION {[1..k -> CallSources] : k \in 1..MaxCalls}

SpecCalls == InitCalls /\ [][Next]_vars

\* C5: every compile call starts from reset state, so compiling a source on an
\* instance that has compiled before gives the result a fresh instance gives.
C5_SameAsFresh ==
    /\ pc = "returned" => result = compile_fresh(code)
    /\ pc = "raised" => compile_fresh(code) = <<>>

\* position in the source of its j-th statement
RECURSIVE TokenPos(_, _)
TokenPos(matches, j) ==
    IF IsToken(Head(matches))
    THEN IF j = 1 THEN 1 ELSE 1 + TokenPos(Tail(matches), j - 1)
    ELSE 1 + TokenPos(Tail(matches), j)

\* source line on which the j-th statement appears
StmtLine(matches, j) == 1 + SumNewlines(SubSeq(matches, 1, TokenPos(matches, j) - 1))

\* C7: every diagnostic carries the line number of the source line on which
\* the offending statement appears.
C7_DiagnosticLine ==
    \A j \in 1..Len(log) :
        \A k \in 1..Len(log[j].errors) :
            log[j].errors[k].line = StmtLine(code, j)

MaxEndLen == 2

MaxEndCalls == 2

EndSources == {Lines(p) : p \in SeqsUpTo({Halt, Foo}, MaxEndLen)}

InitEnd ==
    /\ InitCompiler
    /\ pending \in UNION {[1..k -> EndSources] : k \in 1..MaxEndCalls}

SpecEnd == InitEnd /\ [][Next]_vars

\* C4: when a compile call runs to completion with diagnostics it returns
\* failure with no text and writes no output file; with no diagnostics it
\* returns success with the full generated text (and writes it).
C4_ReturnContract ==
    [][(pc = "loop" /\ pc' = "returned") =>
          IF errors' # <<>>
          THEN /\ result' = <<[ok |-> FALSE, text |-> <<>>]>>
               /\ file' = file
          ELSE /\ result' = <<[ok |-> TRUE, text |-> <<join(asm')>>]>>
               /\ file' = <<join(asm')>>]_vars

\* a call that ended with diagnostics after an earlier call had written the file
C4_Witness ==
    /\ pc = "returned"
    /\ errors # <<>>
    /\ result = <<[ok |-> FALSE, text |-> <<>>]>>
    /\ file # <<>>

----------------------------------------------------------------------------
(* Move / Add / Sub *)

Move(src, dst) == [type |-> "MOVE", src |-> src, dst |-> dst]

Add(dst, src) == [type |-> "ADD", dst |-> dst, src |-> src]

Sub(dst, src) == [type |-> "SUB", dst |-> dst, src |-> src]

MaxArithLen == 3

ArithStmts ==
    { Decl(n_x, WORD, <<>>), Decl(n_x, LONG, <<>>), Decl(n_Dz, LONG, <<>>),
      Decl(n_y, word, <<>>),
      Move(<<"1">>, n_x), Move(<<"1">>, n_Dz), Move(<<"1">>, n_y),
      Move(<<"1">>, <<"D", "0">>),
      Add(n_x, <<"1">>), Sub(n_x, <<"1">>) }

InitArith ==
    /\ InitCompiler
    /\ pending \in {<<Lines(p)>> : p \in SeqsUpTo(ArithStmts, MaxArithLen)}

SpecArith == InitArith /\ [][Next]_vars

DataRegisters == {<<"D", DigitSeq[k]>> : k \in 1..8}

\* name is declared by a statement before position j
DeclaredBefore(toks, j, name) ==
    \E m \in 1..(j - 1) : toks[m].type = "DECLARE" /\ toks[m].name = name

\* the storage class keyword of the first declaration of name
ClassBefore(toks, j, name) ==
    toks[CHOOSE m \in 1..(j - 1) :
            /\ toks[m].type = "DECLARE" /\ toks[m].name = name
            /\ \A n \in 1..(m - 1) : ~(toks[n].type = "DECLARE" /\ toks[n].name = name)].vtype

\* C8: a Move, Add or Sub is word-sized when its destination is a declared Word
\* variable or a data register, and long-sized when it is a declared Long
\* variable, whatever the name and the statement.
C8_SizeFollowsDestination ==
    \A j \in 1..Len(log) :
        tokens[j].type \in {"MOVE", "ADD", "SUB"} =>
            LET dst == tokens[j].dst
                size == log[j].asm[1].size
            IN  IF DeclaredBefore(tokens, j, dst)
                THEN size = (IF ClassSize(ClassBefore(tokens, j, dst)) = 2 THEN "w" ELSE "l")
                ELSE dst \in DataRegisters => size = "w"

----------------------------------------------------------------------------
(* Hardware statements *)

VdpSet(reg, val) == [type |-> "VDP_SET", reg |-> reg, val |-> val]

Tile(id, addr, size) == [type |-> "TILE", id |-> id, addr |-> addr, size |-> size]

Sprite(sid, x, y) ==
    [type |-> "SPRITE", sid |-> sid, x |-> x, y |-> y, tile |-> <<"3">>,
     pal |-> <<"0">>, hflip |-> <<"0">>, vflip |-> <<"0">>]

Palette(id, colors) == [type |-> "PALETTE", id |-> id, colors |-> colors]

MaxHwLen == 2

HwStmts ==
    { VdpSet(<<"1">>, <<"4">>), VdpSet(<<"1">>, <<"3", "0", "0">>),
      VdpSet(<<"1">>, <<"$", "0", "4">>),
      Tile(<<"0">>, <<"1", "6">>, <<"4">>), Tile(<<"0">>, <<"$", "1", "0">>, <<"4">>),
      Sprite(<<"0">>, <<"1">>, <<"2">>), Sprite(<<"0">>, n_x, <<"2">>),
      Palette(<<"0">>, << <<"1">>, <<"2">> >>),
      Palette(<<"0">>, << <<"$", "0", "E", "E", "E">> >>),
      Palette(<<"0">>, << <<"1">>, <<"a", "b", "c">> >>),
      Palette(<<"0">>, [k \in 1..17 |-> <<"7">>]),
      Halt }

InitHw ==
    /\ InitCompiler
    /\ pending \in {<<Lines(p)>> : p \in SeqsUpTo(HwStmts, MaxHwLen)}

SpecHw == InitHw /\ [][Next]_vars

MaxStreamLen == 2

\* statements of every other handled kind, and one no handler covers
StreamStmts ==
    { Sprite(<<"0">>, <<"1">>, <<"2">>), Sprite(<<"0">>, n_x, <<"2">>),
      Palette(<<"0">>, << <<"1">>, <<"2">> >>),
      Palette(<<"0">>, << <<"1">>, <<"a", "b", "c">> >>),
      Palette(<<"0">>, [k \in 1..17 |-> <<"7">>]),
      [type |-> "READCONTROLLER", port |-> <<"0">>],
      [type |-> "SOUND", ch |-> <<"1">>, note |-> <<"2">>, vol |-> <<"3">>],
      [type |-> "GOTO", label |-> <<"l">>],
      [type |-> "LABEL", value |-> <<"l", ":">>],
      [type |-> "POKE", addr |-> <<"$", "1", "0">>, val |-> n_x],
      [type |-> "WAITVBLANK"],
      Halt, Foo }

InitStream ==
    /\ InitCompiler
    /\ pending \in {<<Lines(p)>> : p \in SeqsUpTo(StreamStmts, MaxStreamLen)}

SpecStream == InitStream /\ [][Next]_vars

\* C6: generation never raises or aborts partway: every token is visited in
\* order and the pass ends only after the last one.
C6_NeverAborts ==
    /\ pc # "raised"
    /\ pc = "returned" => Len(log) = Len(tokens)

\* the number a decimal or $-prefixed hexadecimal literal denotes
LitValue(lit) == IF startswith(lit, "$") THEN int16(Tail(lit)).val ELSE int(lit).val

\* C9: TILE with VRAM address a emits the control long (a << 16) | 0x40000002
\* and VDP SET r, v emits the control word 0x8000 | (r << 8) | (v & 0xFF), for
\* every operand value, decimal or hexadecimal.
C9_ControlWords ==
    /\ pc = "raised" => tokens[i].type \notin {"TILE", "VDP_SET"}
    /\ \A j \in 1..Len(log) :
          /\ tokens[j].type = "TILE" =>
                log[j].asm[1].src =
                    <<"#">> \o str(LitValue(tokens[j].addr) * 65536 + 1073741826)
          /\ tokens[j].type = "VDP_SET" =>
                log[j].asm =
                    << Ins("move", "w",
                           <<"#">> \o str(32768 + LitValue(tokens[j].reg) * 256
                                          + (LitValue(tokens[j].val) % 256)),
                           VDP_CTRL, "") >>

====
